---- MODULE Spec2Model ----
(***************************************************************************)
(* Model of the monthly menu-change tool (src/app.py).                     *)
(*                                                                         *)
(* Text is modelled as a sequence of one-character strings, so that        *)
(* str.strip, the CSV reader's NA / numeric inference, f-string padding    *)
(* and date parsing are computed character by character.  Korean literals  *)
(* of the source are written in ASCII transliteration; each one carries a  *)
(* comment giving the original literal.                                    *)
(*                                                                         *)
(* A CSV file is modelled as its grid of cells: a header (column names)    *)
(* and rows of text cells.  The quoting layer of the csv writer/reader is  *)
(* the identity on the cells used here (no comma, quote or newline).       *)
(***************************************************************************)
EXTENDS Integers, Sequences, FiniteSets, TLC

VARIABLES
    year,          \* st.selectbox "year"  (app.py:143)
    month,         \* st.selectbox "month" (app.py:144)
    menu_file,     \* menu_options.txt: [exists, lines]
    base_file,     \* data/base_menu_<ym>.csv: [exists, columns, rows]
    changes_file,  \* data/changes_<ym>.csv:   [exists, columns, rows]
    outcome,       \* how the last script run ended
    base_df,       \* read_base_df result of the last run
    changes_df,    \* read_changes_df result of the last run
    merged,        \* merge_month result of the last run
    msg,           \* build_message result of the last run
    last           \* the user interaction that caused the last run

vars == <<year, month, menu_file, base_file, changes_file, outcome,
          base_df, changes_df, merged, msg, last>>

-----------------------------------------------------------------------------
(* Bounds of the model and constants of the program *)

MaxSelDay == 2
MaxFileRows == 2
YearMin == 2010
YearMax == 2040

-----------------------------------------------------------------------------
(* Characters, integers as text *)

Digits == <<"0", "1", "2", "3", "4", "5", "6", "7", "8", "9">>

DigitSet == {Digits[n] : n \in 1..10}

DigitOf == [c \in DigitSet |-> (CHOOSE n \in 1..10 : Digits[n] = c) - 1]

IsDigit(c) == c \in DigitSet

DigitVal(c) == DigitOf[c]

\* str(n) for n >= 0
RECURSIVE IntStr(_)
IntStr(n) == IF n < 10 THEN <<Digits[n + 1]>>
             ELSE IntStr(n \div 10) \o <<Digits[(n % 10) + 1]>>

\* f"{n:0<w>d}": left-pad with zeros up to width w, never truncate
RECURSIVE ZeroPad(_, _)
ZeroPad(s, w) == IF Len(s) >= w THEN s ELSE ZeroPad(<<"0">> \o s, w)

AllDigits(s) == \A i \in 1..Len(s) : IsDigit(s[i])

\* int() of a digit string
RECURSIVE IntVal(_)
IntVal(s) == IF Len(s) = 0 THEN 0
             ELSE 10 * IntVal(SubSeq(s, 1, Len(s) - 1)) + DigitVal(s[Len(s)])

\* code point order of the characters a date_str holds ('-' sorts before digits)
Ord(c) == IF IsDigit(c) THEN 48 + DigitVal(c)
          ELSE IF c = "-" THEN 45
          ELSE IF c = " " THEN 32
          ELSE IF c = ":" THEN 58
          ELSE 97

\* Python's str comparison a < b (lexicographic by code point)
RECURSIVE StrLess(_, _)
StrLess(a, b) ==
    IF Len(b) = 0 THEN FALSE
    ELSE IF Len(a) = 0 THEN TRUE
    ELSE IF Ord(a[1]) < Ord(b[1]) THEN TRUE
    ELSE IF Ord(a[1]) > Ord(b[1]) THEN FALSE
    ELSE StrLess(Tail(a), Tail(b))

IsSpace(c) == c = " "

RECURSIVE LStrip(_)
LStrip(s) == IF Len(s) > 0 /\ IsSpace(s[1]) THEN LStrip(Tail(s)) ELSE s

RECURSIVE RStrip(_)
RStrip(s) == IF Len(s) > 0 /\ IsSpace(s[Len(s)])
             THEN RStrip(SubSeq(s, 1, Len(s) - 1)) ELSE s

\* str.strip() (of the whitespace characters only the space is modelled)
Strip(s) == RStrip(LStrip(s))

-----------------------------------------------------------------------------
(* Calendar *)

mdays == <<31, 28, 31, 30, 31, 30, 31, 31, 30, 31, 30, 31>>

isleap(y) == y % 4 = 0 /\ (y % 100 # 0 \/ y % 400 = 0)

\* calendar.monthrange(year, month)[1]
monthrange(y, m) == mdays[m] + (IF m = 2 /\ isleap(y) THEN 1 ELSE 0)

\* f"{year:04d}-{month:02d}-{d:02d}"
IsoDate(y, m, d) ==
    ZeroPad(IntStr(y), 4) \o <<"-">> \o ZeroPad(IntStr(m), 2) \o <<"-">>
        \o ZeroPad(IntStr(d), 2)

\* mutant: range(1, last_day) leaves the last day out
month_date_list_OffByOne(y, m) ==
    LET last_day == monthrange(y, m)
        ym == ZeroPad(IntStr(y), 4) \o <<"-">> \o ZeroPad(IntStr(m), 2) \o <<"-">>
    IN [d \in 1..(last_day - 1) |-> ym \o ZeroPad(IntStr(d), 2)]

\* [f"{year:04d}-{month:02d}-{d:02d}" for d in range(1, last_day + 1)]
month_date_list(y, m) ==
    LET last_day == monthrange(y, m)
        ym == ZeroPad(IntStr(y), 4) \o <<"-">> \o ZeroPad(IntStr(m), 2) \o <<"-">>
    IN [d \in 1..last_day |-> ym \o ZeroPad(IntStr(d), 2)]

-----------------------------------------------------------------------------
(* pandas: read_csv cell inference, to_datetime, strftime *)

\* the default NA tokens of read_csv that occur in the modelled cells
IsNA(cell) == cell = <<>> \/ cell = <<"N", "A">>

IsIntCell(cell) == Len(cell) > 0 /\ AllDigits(cell)

\* digits '.' digits
IsFloatCell(cell) ==
    \E k \in 2..(Len(cell) - 1) :
        /\ cell[k] = "."
        /\ AllDigits(SubSeq(cell, 1, k - 1))
        /\ AllDigits(SubSeq(cell, k + 1, Len(cell)))

IsNumCell(cell) == IsIntCell(cell) \/ IsFloatCell(cell)

\* dtype read_csv infers for a column from its cells
ColumnKind(cells) ==
    LET vals == {i \in 1..Len(cells) : ~IsNA(cells[i])} IN
    IF \A i \in vals : IsIntCell(cells[i])
    THEN (IF vals = 1..Len(cells) /\ Len(cells) > 0 THEN "int64" ELSE "float64")
    ELSE IF \A i \in vals : IsNumCell(cells[i]) THEN "float64"
    ELSE "object"

RECURSIVE StripTrailingZeros(_)
StripTrailingZeros(s) ==
    IF Len(s) > 1 /\ s[Len(s)] = "0"
    THEN StripTrailingZeros(SubSeq(s, 1, Len(s) - 1)) ELSE s

\* str(float(cell)) for the plain decimals modelled
FloatStr(cell) ==
    IF IsIntCell(cell) THEN IntStr(IntVal(cell)) \o <<".", "0">>
    ELSE LET k == CHOOSE j \in 2..(Len(cell) - 1) : cell[j] = "." IN
         IntStr(IntVal(SubSeq(cell, 1, k - 1))) \o <<".">>
             \o StripTrailingZeros(SubSeq(cell, k + 1, Len(cell)))

\* one value of a column after read_csv, .fillna("") and .astype(str)
FillnaStr(cell, kind) ==
    IF IsNA(cell) THEN <<>>
    ELSE IF kind = "int64" THEN IntStr(IntVal(cell))
    ELSE IF kind = "float64" THEN FloatStr(cell)
    ELSE cell

NaT == [year |-> 0, month |-> 0, day |-> 0, hour |-> 0, minute |-> 0]

ValidYMD(y, m, d) == m \in 1..12 /\ d >= 1 /\ d <= monthrange(y, m)

Num2(a, b) == 10 * DigitVal(a) + DigitVal(b)

Timestamp(y, m, d, hh, mi) ==
    IF ValidYMD(y, m, d) /\ hh < 24 /\ mi < 60
    THEN [year |-> y, month |-> m, day |-> d, hour |-> hh, minute |-> mi]
    ELSE NaT

\* pd.to_datetime(..., errors="coerce") on one cell:
\* 'YYYY-MM-DD' or 'YYYY-MM-DD HH:MM', anything else is NaT
to_datetime(cell) ==
    IF Len(cell) \in {10, 16}
       /\ \A i \in {1, 2, 3, 4, 6, 7, 9, 10} : IsDigit(cell[i])
       /\ cell[5] = "-" /\ cell[8] = "-"
    THEN IF Len(cell) = 10
         THEN Timestamp(100 * Num2(cell[1], cell[2]) + Num2(cell[3], cell[4]),
                        Num2(cell[6], cell[7]), Num2(cell[9], cell[10]), 0, 0)
         ELSE IF cell[11] = " " /\ cell[14] = ":"
                 /\ \A i \in {12, 13, 15, 16} : IsDigit(cell[i])
         THEN Timestamp(100 * Num2(cell[1], cell[2]) + Num2(cell[3], cell[4]),
                        Num2(cell[6], cell[7]), Num2(cell[9], cell[10]),
                        Num2(cell[12], cell[13]), Num2(cell[15], cell[16]))
         ELSE NaT
    ELSE NaT

\* .dt.strftime("%Y-%m-%d")
strftime_ymd(ts) == IsoDate(ts.year, ts.month, ts.day)

\* .dt.strftime("%m/%d")
strftime_md(ts) == ZeroPad(IntStr(ts.month), 2) \o <<"/">> \o ZeroPad(IntStr(ts.day), 2)

\* ordering of timestamps (sort_values("date") on a datetime column)
TsKey(ts) == (((ts.year * 12 + ts.month) * 31 + ts.day) * 24 + ts.hour) * 60 + ts.minute

-----------------------------------------------------------------------------
(* Files and tables *)

NoFile == [exists |-> FALSE, columns |-> <<>>, rows |-> <<>>]

CsvFile(cols, rows) == [exists |-> TRUE, columns |-> cols, rows |-> rows]

HasCol(f, name) == \E i \in 1..Len(f.columns) : f.columns[i] = name

ColIndex(f, name) == CHOOSE i \in 1..Len(f.columns) : f.columns[i] = name

\* the cells of one column of the file, in file order
ColCells(f, name) == [i \in 1..Len(f.rows) |-> f.rows[i][ColIndex(f, name)]]

\* pd.read_csv(path, encoding=enc) over the candidate encodings (the decoded
\* cells are the same whichever encoding succeeds): the frame keeps the cells
\* and the dtype inferred for each column
safe_read_csv(f) ==
    [columns |-> f.columns,
     dtypes |-> [j \in 1..Len(f.columns) |->
                   ColumnKind([i \in 1..Len(f.rows) |-> f.rows[i][j]])],
     rows |-> f.rows]

\* df[name].dtype
DType(df, name) == df.dtypes[ColIndex(df, name)]

\* DataFrame.drop_duplicates("date_str", keep="last")
RECURSIVE drop_duplicates_last(_)
drop_duplicates_last(s) ==
    IF Len(s) = 0 THEN <<>>
    ELSE IF \E j \in 2..Len(s) : s[j].date_str = s[1].date_str
    THEN drop_duplicates_last(Tail(s))
    ELSE <<s[1]>> \o drop_duplicates_last(Tail(s))

\* insert x behind every element whose timestamp is <= x.date
RECURSIVE InsertByTs(_, _)
InsertByTs(x, s) ==
    IF Len(s) = 0 THEN <<x>>
    ELSE IF TsKey(s[Len(s)].date) <= TsKey(x.date) THEN Append(s, x)
    ELSE Append(InsertByTs(x, SubSeq(s, 1, Len(s) - 1)), s[Len(s)])

\* df.sort_values("date") on the datetime column.  Rows with equal timestamps
\* are kept in file order (NumPy leaves their order unspecified).
RECURSIVE sort_values_ts(_)
sort_values_ts(s) ==
    IF Len(s) = 0 THEN <<>>
    ELSE InsertByTs(s[Len(s)], sort_values_ts(SubSeq(s, 1, Len(s) - 1)))

RECURSIVE InsertByStr(_, _)
InsertByStr(x, s) ==
    IF Len(s) = 0 THEN <<x>>
    ELSE IF ~StrLess(x.date, s[Len(s)].date) THEN Append(s, x)
    ELSE Append(InsertByStr(x, SubSeq(s, 1, Len(s) - 1)), s[Len(s)])

\* out.sort_values("date") on the string column written by save / clear
RECURSIVE sort_values_str(_)
sort_values_str(s) ==
    IF Len(s) = 0 THEN <<>>
    ELSE InsertByStr(s[Len(s)], sort_values_str(SubSeq(s, 1, Len(s) - 1)))

HasDate(r) == r.date # NaT

\* the ValueError of read_base_df: a required column is missing
BaseSchemaError(f) == ~HasCol(f, "date") \/ ~HasCol(f, "base_menu")

read_base_df(path) ==
    LET df == safe_read_csv(path)
        kind == DType(df, "base_menu")
        parsed == [i \in 1..Len(df.rows) |->
                     [date |-> to_datetime(ColCells(df, "date")[i]),
                      base_menu |-> FillnaStr(ColCells(df, "base_menu")[i], kind)]]
        kept == SelectSeq(parsed, HasDate)
        out == [i \in 1..Len(kept) |->
                  [date_str |-> strftime_ymd(kept[i].date),
                   base_menu |-> kept[i].base_menu]]
    IN drop_duplicates_last(out)

\* pd.DataFrame(columns=["date", "new_menu"]).to_csv(path, index=False)
EmptyChangesFile == CsvFile(<<"date", "new_menu">>, <<>>)

\* the file read_changes_df leaves behind: created header-only when missing
EnsureChangesFile(f) == IF f.exists THEN f ELSE EmptyChangesFile

read_changes_df(path) ==
    LET df == safe_read_csv(EnsureChangesFile(path))
        n == Len(df.rows)
        dcell(i) == IF HasCol(df, "date") THEN ColCells(df, "date")[i] ELSE <<>>
        kind == IF HasCol(df, "new_menu") THEN DType(df, "new_menu") ELSE "object"
        mcell(i) == IF HasCol(df, "new_menu") THEN ColCells(df, "new_menu")[i]
                    ELSE <<>>
        parsed == [i \in 1..n |->
                     [date |-> to_datetime(dcell(i)),
                      new_menu |-> FillnaStr(mcell(i), kind)]]
        kept == SelectSeq(parsed, HasDate)
        sorted == sort_values_ts(kept)
        out == [i \in 1..Len(sorted) |->
                  [date_str |-> strftime_ymd(sorted[i].date),
                   new_menu |-> sorted[i].new_menu]]
    IN drop_duplicates_last(out)

\* frame.merge(right, on="date_str", how="left") followed by
\* m[col].fillna("").astype(str): one output row per matching right row,
\* or one row with "" when the key has no match
RECURSIVE left_merge(_, _, _)
left_merge(left, right, col) ==
    IF Len(left) = 0 THEN <<>>
    ELSE LET l == left[1]
             SameKey(r) == r.date_str = l.date_str
             ms == SelectSeq(right, SameKey)
             rows == IF Len(ms) = 0 THEN <<l @@ (col :> <<>>)>>
                     ELSE [i \in 1..Len(ms) |-> l @@ (col :> ms[i][col])]
         IN rows \o left_merge(Tail(left), right, col)

\* mutant: the override is compared with "" without .str.strip()
MergedRow_NoStrip(r) ==
    [date_str |-> r.date_str,
     base_menu |-> r.base_menu,
     new_menu |-> r.new_menu,
     final_menu |-> IF r.new_menu # <<>> THEN r.new_menu ELSE r.base_menu,
     is_changed |-> r.new_menu # <<>>,
     mmdd |-> strftime_md(to_datetime(r.date_str))]

\* app.py:103-107, one row of m
MergedRow(r) ==
    [date_str |-> r.date_str,
     base_menu |-> r.base_menu,
     new_menu |-> r.new_menu,
     final_menu |-> IF Strip(r.new_menu) # <<>> THEN r.new_menu ELSE r.base_menu,
     is_changed |-> Strip(r.new_menu) # <<>>,
     mmdd |-> strftime_md(to_datetime(r.date_str))]

merge_month(bdf, cdf, y, m) ==
    LET dates == month_date_list(y, m)
        frame == [i \in 1..Len(dates) |-> [date_str |-> dates[i]]]
        mm == left_merge(left_merge(frame, bdf, "base_menu"), cdf, "new_menu")
    IN [i \in 1..Len(mm) |-> MergedRow(mm[i])]

-----------------------------------------------------------------------------
(* Message.  A line is the concatenation of its pieces; a literal of the   *)
(* source is one piece.                                                    *)

VENDOR_NAME == <<"Momsrak">>                     \* "맘스락"
TITLE_OPEN == <<" ( ">>
TITLE_REST == <<" )wol byeongyeong sikdan imnida">>  \* " )월 변경 식단 입니다"
NO_CHANGE == <<"byeongyeong eopseum">>           \* "변경 없음"
MIGIJAE == <<"(migijae)">>                       \* "(미기재)"
LBL_BASE == <<": (gibon)">>                      \* ": (기본)"
LBL_NEW == <<" -> (byeongyeong)">>               \* " → (변경)"
SIGNATURE == <<"Dongyak hyeophoe / Sin Hyeongcheol / 010-7101-5871">>

IsChanged(r) == r.is_changed

\* merged[merged["is_changed"]]
changed_rows_of(m) == SelectSeq(m, IsChanged)

\* mutant: a blank base menu is printed as it is
ChangeLine_NoPlaceholder(r) ==
    r.mmdd \o LBL_BASE \o Strip(r.base_menu) \o LBL_NEW \o Strip(r.new_menu)

\* app.py:124-126
ChangeLine(r) ==
    LET base == IF Strip(r.base_menu) # <<>> THEN Strip(r.base_menu) ELSE MIGIJAE
        newv == IF Strip(r.new_menu) # <<>> THEN Strip(r.new_menu) ELSE MIGIJAE
    IN r.mmdd \o LBL_BASE \o base \o LBL_NEW \o newv

build_message(mo, rows) ==
    <<VENDOR_NAME \o TITLE_OPEN \o IntStr(mo) \o TITLE_REST, <<>>>>
      \o (IF Len(rows) = 0 THEN <<NO_CHANGE>>
          ELSE [i \in 1..Len(rows) |-> ChangeLine(rows[i])])
      \o <<<<>>, SIGNATURE>>

-----------------------------------------------------------------------------
(* Menu options and the new_menu selection *)

DIRECT_INPUT == <<"(", "J", " ", "I", ")">>      \* "(직접 입력)"

NonBlank(line) == Strip(line) # <<>>

load_menu_options(mf) ==
    LET kept == SelectSeq(mf.lines, NonBlank)
        opts == [i \in 1..Len(kept) |-> Strip(kept[i])]
    IN IF mf.exists /\ Len(opts) > 0 THEN opts ELSE <<DIRECT_INPUT>>

\* app.py:230-233
new_menu_of(choice, custom) ==
    IF choice # DIRECT_INPUT /\ Strip(custom) = <<>> THEN Strip(choice)
    ELSE IF Strip(custom) # <<>> THEN Strip(custom)
    ELSE IF choice # <<>> THEN Strip(choice)
    ELSE <<>>

-----------------------------------------------------------------------------
(* One run of the script, top to bottom, on the files as they are *)

NoView(oc) == [outcome |-> oc, base_df |-> <<>>, changes_df |-> <<>>,
               merged |-> <<>>, msg |-> <<>>]

\* view_df["date_str"].tolist()
date_options(mg, changed_only) ==
    LET view_df == IF changed_only THEN changed_rows_of(mg) ELSE mg
    IN [i \in 1..Len(view_df) |-> view_df[i].date_str]

\* app.py:156-296 with no upload and no button pressed
ScriptRun(bf, cf, y, m, changed_only) ==
    IF ~bf.exists THEN NoView("need_upload")
    ELSE IF BaseSchemaError(bf) THEN NoView("schema_error")
    ELSE LET bdf == read_base_df(bf)
             cdf == read_changes_df(cf)
             mg == merge_month(bdf, cdf, y, m)
         IN IF Len(date_options(mg, changed_only)) = 0
            THEN [outcome |-> "no_items", base_df |-> bdf, changes_df |-> cdf,
                  merged |-> mg, msg |-> <<>>]
            ELSE [outcome |-> "rendered", base_df |-> bdf, changes_df |-> cdf,
                  merged |-> mg, msg |-> build_message(m, changed_rows_of(mg))]

\* the change-set file after a run: read_changes_df creates it when the run
\* gets as far as loading the changes
FileAfterRun(bf, cf) ==
    IF bf.exists /\ ~BaseSchemaError(bf) THEN EnsureChangesFile(cf) ELSE cf

Show(v) ==
    /\ outcome' = v.outcome
    /\ base_df' = v.base_df
    /\ changes_df' = v.changes_df
    /\ merged' = v.merged
    /\ msg' = v.msg

\* mutant: the rows are written in the order of tmp, without sort_values
to_csv_changes_Unsorted(tmp) ==
    CsvFile(<<"date", "new_menu">>,
            [i \in 1..Len(tmp) |-> <<tmp[i].date_str, tmp[i].new_menu>>])

\* pd.DataFrame({"date": tmp["date_str"], "new_menu": tmp["new_menu"]})
\*   .sort_values("date").to_csv(CHANGES_FILE, index=False)
to_csv_changes(tmp) ==
    LET out == sort_values_str([i \in 1..Len(tmp) |->
                   [date |-> tmp[i].date_str, new_menu |-> tmp[i].new_menu]])
    IN CsvFile(<<"date", "new_menu">>,
               [i \in 1..Len(out) |-> <<out[i].date, out[i].new_menu>>])

\* tmp[tmp["date_str"] != selected_date]
without_date(cdf, sel) ==
    LET Other(r) == r.date_str # sel IN SelectSeq(cdf, Other)

\* app.py:244-247
upsert(cdf, sel, nm) == Append(without_date(cdf, sel), [date_str |-> sel, new_menu |-> nm])

Selectable(y, m) == {IsoDate(y, m, d) : d \in 1..MaxSelDay}

InSeq(x, s) == \E i \in 1..Len(s) : s[i] = x

CustomInputs == {<<>>, <<" ">>, <<"N", "A">>, <<"0", "7", " ">>}

NoInput == <<>>

\* a page view: the script runs with no button pressed
Render(changed_only) ==
    /\ \E v \in {ScriptRun(base_file, changes_file, year, month, changed_only)} : Show(v)
    /\ changes_file' = FileAfterRun(base_file, changes_file)
    /\ last' = [op |-> "view", date |-> NoInput, menu |-> NoInput]
    /\ UNCHANGED <<year, month, menu_file, base_file>>

\* app.py:167-175: the uploaded bytes are written, then st.rerun()
Upload(up) ==
    /\ outcome = "need_upload"
    /\ ~base_file.exists
    /\ base_file' = up
    /\ \E v \in {ScriptRun(up, changes_file, year, month, FALSE)} : Show(v)
    /\ changes_file' = FileAfterRun(up, changes_file)
    /\ last' = [op |-> "upload", date |-> NoInput, menu |-> NoInput]
    /\ UNCHANGED <<year, month, menu_file>>

\* The run a button press starts reloads the same two files the page was
\* rendered from, so its changes_df and merged are those of the page
\* (ViewIsFresh below); the guards are the st.stop() exits before the buttons.
ButtonsShown(selected_date, changed_only) ==
    /\ outcome = "rendered"
    /\ InSeq(selected_date, date_options(merged, changed_only))

\* app.py:243-252: 'save' pressed on a rendered page, then st.rerun()
Save(selected_date, choice, custom, changed_only) ==
    /\ ButtonsShown(selected_date, changed_only)
    /\ InSeq(choice, load_menu_options(menu_file))
    /\ \E nm \in {new_menu_of(choice, custom)} :
       \E written \in {to_csv_changes(upsert(changes_df, selected_date, nm))} :
          /\ changes_file' = written
          /\ \E v \in {ScriptRun(base_file, written, year, month, changed_only)} : Show(v)
          /\ last' = [op |-> "save", date |-> selected_date, menu |-> nm]
    /\ UNCHANGED <<year, month, menu_file, base_file>>

\* app.py:254-260: 'delete this date' pressed on a rendered page, then st.rerun()
Clear(selected_date, changed_only) ==
    /\ ButtonsShown(selected_date, changed_only)
    /\ \E written \in {to_csv_changes(without_date(changes_df, selected_date))} :
          /\ changes_file' = written
          /\ \E v \in {ScriptRun(base_file, written, year, month, changed_only)} : Show(v)
          /\ last' = [op |-> "clear", date |-> selected_date, menu |-> NoInput]
    /\ UNCHANGED <<year, month, menu_file, base_file>>

-----------------------------------------------------------------------------
(* Inputs: the files a user can put in place *)

Gimchi == <<"g", "m">>
Doenjang == <<"d", "j">>
Jeyuk == <<"j", "y">>
Bab == <<" ", "b", "a", "b", " ">>

TimeCell(y, m, d, hh, mi) ==
    IsoDate(y, m, d) \o <<" ">> \o ZeroPad(IntStr(hh), 2) \o <<":">>
        \o ZeroPad(IntStr(mi), 2)

NextYear(y, m) == IF m = 12 THEN y + 1 ELSE y
NextMonth(m) == IF m = 12 THEN 1 ELSE m + 1

\* a base-menu file as filled in from the template: day 1 left blank
GoodBase(y, m) ==
    CsvFile(<<"date", "base_menu">>,
            << <<IsoDate(y, m, 1), <<" ">>>>,
               <<IsoDate(y, m, 2), Gimchi>>,
               <<IsoDate(y, m, 3), Doenjang>> >>)

\* a base-menu file with repeated dates and a row of another month
DupBase(y, m) ==
    CsvFile(<<"date", "base_menu">>,
            << <<TimeCell(y, m, 1, 10, 0), Gimchi>>,
               <<TimeCell(y, m, 1, 8, 0), Doenjang>>,
               <<TimeCell(NextYear(y, m), NextMonth(m), 1, 8, 0), Jeyuk>> >>)

BadUploads(y, m) ==
    { CsvFile(<<"date", "menu">>, << <<IsoDate(y, m, 1), Gimchi>> >>),
      CsvFile(<<"base_menu">>, << <<Gimchi>> >>) }

\* a change-set file kept from elsewhere: an auxiliary column, unsorted rows,
\* one date outside the month
ExternalChanges(y, m) ==
    CsvFile(<<"date", "base_menu", "new_menu">>,
            << <<IsoDate(NextYear(y, m), NextMonth(m), 1), Gimchi, Jeyuk>>,
               <<IsoDate(y, m, 2), <<>>, Doenjang>> >>)

MenuFiles == { [exists |-> FALSE, lines |-> <<>>],
               [exists |-> TRUE, lines |-> <<Bab, <<" ">>>>] }

AppMonths == {<<2025, 6>>}

NoLast == [op |-> "none", date |-> NoInput, menu |-> NoInput]

Init ==
    /\ \E ym \in AppMonths : year = ym[1] /\ month = ym[2]
    /\ menu_file \in MenuFiles
    /\ base_file \in {NoFile, GoodBase(year, month)}
    /\ changes_file \in {NoFile, ExternalChanges(year, month)}
    /\ outcome = "init"
    /\ base_df = <<>> /\ changes_df = <<>> /\ merged = <<>> /\ msg = <<>>
    /\ last = NoLast

\* The buttons are pressed with the "changed only" filter off: with it on the
\* selectable dates are a subset of these.
Next ==
    \/ \E co \in BOOLEAN : Render(co)
    \/ \E up \in BadUploads(year, month) \cup {GoodBase(year, month)} : Upload(up)
    \/ \E sel \in Selectable(year, month), custom \in CustomInputs :
         \E i \in 1..Len(load_menu_options(menu_file)) :
            Save(sel, load_menu_options(menu_file)[i], custom, FALSE)
    \/ \E sel \in Selectable(year, month) : Clear(sel, FALSE)

Spec == Init /\ [][Next]_vars

-----------------------------------------------------------------------------
(* Loading arbitrary files: every selectable month, files with repeated,   *)
(* unparsable and out-of-month dates                                       *)

RowOptions(y, m) ==
    { <<TimeCell(y, m, 1, 10, 0), Jeyuk>>,
      <<TimeCell(y, m, 1, 8, 0), Doenjang>>,
      <<TimeCell(y, m, 2, 8, 0), <<" ">>>>,
      <<TimeCell(NextYear(y, m), NextMonth(m), 1, 8, 0), Jeyuk>>,
      <<<<"b", "a", "d">>, Doenjang>> }

ChangeFiles(y, m) ==
    { CsvFile(<<"date", "new_menu">>, rows) :
        rows \in UNION {[1..k -> RowOptions(y, m)] : k \in 0..MaxFileRows} }

LoadMonths == {<<2023, 2>>, <<2024, 2>>, <<2025, 6>>, <<2030, 12>>}

InitLoad ==
    /\ year \in YearMin..YearMax
    /\ month \in 1..12
    /\ menu_file = [exists |-> FALSE, lines |-> <<>>]
    /\ base_file \in {GoodBase(year, month), DupBase(year, month)}
    /\ changes_file \in (IF <<year, month>> \in LoadMonths
                         THEN ChangeFiles(year, month)
                         ELSE {NoFile, ExternalChanges(year, month)})
    /\ outcome = "init"
    /\ base_df = <<>> /\ changes_df = <<>> /\ merged = <<>> /\ msg = <<>>
    /\ last = NoLast

NextLoad == \E co \in BOOLEAN : Render(co)

SpecLoad == InitLoad /\ [][NextLoad]_vars

-----------------------------------------------------------------------------
(* Properties *)

Loaded == outcome \in {"rendered", "no_items"}

\* Every run that gets to the buttons shows the tables of the files as they
\* are: the run a button press starts reloads exactly these.
ViewIsFresh ==
    Loaded => /\ changes_file.exists
              /\ base_df = read_base_df(base_file)
              /\ changes_df = read_changes_df(changes_file)
              /\ merged = merge_month(base_df, changes_df, year, month)

LeapYearsInRange == {2012 + 4 * k : k \in 0..7}

ExpectedDays(y, m) ==
    IF m \in {1, 3, 5, 7, 8, 10, 12} THEN 31
    ELSE IF m \in {4, 6, 9, 11} THEN 30
    ELSE IF y \in LeapYearsInRange THEN 29
    ELSE 28

\* C1: for every year 2010..2040 and month 1..12 and whatever the two files
\* hold, the merged table has exactly one row per calendar day of the month
\* (28/29/30/31 rows, February 29 exactly in leap years), row i being day i,
\* so the rows ascend by date.
C1_OneRowPerDay ==
    Loaded =>
        /\ year \in YearMin..YearMax /\ month \in 1..12
        /\ Len(merged) = ExpectedDays(year, month)
        /\ \A i \in 1..Len(merged) : merged[i].date_str = IsoDate(year, month, i)
        /\ \A i \in 1..(Len(merged) - 1) :
               StrLess(merged[i].date_str, merged[i + 1].date_str)

\* leap February, a change-set file whose two rows load as one entry
C1_Witness ==
    /\ outcome = "rendered" /\ year = 2024 /\ month = 2
    /\ Len(merged) = 29
    /\ Len(changes_file.rows) = 2 /\ Len(changes_df) = 1

\* the text a table holds for a date, "" when it has no row for it
TextFor(df, col, d) ==
    IF \E i \in 1..Len(df) : df[i].date_str = d
    THEN df[CHOOSE i \in 1..Len(df) : df[i].date_str = d][col]
    ELSE <<>>

Blank(t) == \A i \in 1..Len(t) : t[i] = " "

\* C2: in every merged row is_changed is true iff the override loaded for
\* that date is non-blank after stripping; then final_menu is the override,
\* otherwise (no override row, or a whitespace-only one) it is the base menu.
C2_FinalMenu ==
    Loaded =>
        \A i \in 1..Len(merged) :
            LET r == merged[i]
                ov == TextFor(changes_df, "new_menu", r.date_str)
                bs == TextFor(base_df, "base_menu", r.date_str)
            IN /\ r.new_menu = ov /\ r.base_menu = bs
               /\ r.is_changed = ~Blank(ov)
               /\ r.is_changed => r.final_menu = ov
               /\ ~r.is_changed => r.final_menu = bs

\* one changed day, and one day whose whitespace-only override keeps the base
C2_Witness ==
    /\ Loaded /\ Len(merged) >= 2
    /\ merged[1].is_changed /\ merged[1].final_menu = Jeyuk
    /\ merged[2].new_menu = <<" ">> /\ ~merged[2].is_changed
    /\ merged[2].final_menu = Gimchi

\* the days of the month whose loaded override is non-blank after stripping
ChangedDays ==
    {d \in 1..ExpectedDays(year, month) :
        ~Blank(TextFor(changes_df, "new_menu", IsoDate(year, month, d)))}

\* the k-th changed day in ascending order
KthChangedDay(k) ==
    CHOOSE d \in ChangedDays : Cardinality({e \in ChangedDays : e <= d}) = k

ExpectedLine(d) ==
    LET bs == TextFor(base_df, "base_menu", IsoDate(year, month, d))
        ov == TextFor(changes_df, "new_menu", IsoDate(year, month, d))
    IN ZeroPad(IntStr(month), 2) \o <<"/">> \o ZeroPad(IntStr(d), 2)
         \o LBL_BASE \o (IF Blank(bs) THEN MIGIJAE ELSE Strip(bs))
         \o LBL_NEW \o Strip(ov)

Wrote == last'.op \in {"save", "clear"}

FileRows(f) == {f.rows[i] : i \in 1..Len(f.rows)}

Pairs(df) == {<<df[i].date_str, df[i].new_menu>> : i \in 1..Len(df)}

SameSaveAgain ==
    /\ last.op = "save" /\ last'.op = "save"
    /\ last'.date = last.date /\ last'.menu = last.menu

\* C3: saving the same (date, menu) pair a second time leaves the collection,
\* as the next render loads it, equal to the one after the first save, with
\* exactly one entry for that date, carrying that menu.
C3_SaveTwice ==
    [][SameSaveAgain =>
        /\ Pairs(changes_df') = Pairs(changes_df)
        /\ Cardinality({i \in 1..Len(changes_df') :
                           changes_df'[i].date_str = last'.date}) = 1
        /\ TextFor(changes_df', "new_menu", last'.date) = last'.menu
    ]_vars

\* C4: a collection with one entry per date and non-empty texts, written as
\* save writes it and loaded again, is the same set of (date, new_menu) pairs.
C4_RoundTrip ==
    [][last'.op = "save" =>
        LET coll == upsert(changes_df, last'.date, last'.menu) IN
        (\A i \in 1..Len(coll) : coll[i].new_menu # <<>>)
            => Pairs(changes_df') = Pairs(coll)
    ]_vars

\* the rows of a file whose date parses, and the date each normalizes to
Parsable(f) == {i \in 1..Len(f.rows) : to_datetime(ColCells(f, "date")[i]) # NaT}

DateOfRow(f, i) == strftime_ymd(to_datetime(ColCells(f, "date")[i]))

\* of the rows of the file that normalize to one date, the table holds
\* exactly one, with the text of the last in file order
LastRowWins(f, col, df) ==
    \A i \in Parsable(f) :
        (\A j \in Parsable(f) : j > i => DateOfRow(f, j) # DateOfRow(f, i)) =>
            /\ Cardinality({k \in 1..Len(df) : df[k].date_str = DateOfRow(f, i)}) = 1
            /\ TextFor(df, col, DateOfRow(f, i))
                  = FillnaStr(ColCells(f, col)[i], ColumnKind(ColCells(f, col)))

\* C5: both readers keep, for each date, the row that comes last in the file.
C5_LastRowWins ==
    Loaded => /\ LastRowWins(base_file, "base_menu", base_df)
              /\ LastRowWins(changes_file, "new_menu", changes_df)

\* C7: clear-date removes the entry of the selected date (a no-op when there
\* is none) and leaves every other entry as it was: same date, same text.
C7_ClearFrame ==
    [][last'.op = "clear" =>
        Pairs(changes_df') = {p \in Pairs(changes_df) : p[1] # last'.date}
    ]_vars

\* C8: a request that ends in the schema error has created or modified
\* neither store file.
C8_NoWriteOnSchemaError ==
    [][outcome' = "schema_error" =>
        base_file' = base_file /\ changes_file' = changes_file]_vars

NoBlankOverride(f) == \A i \in 1..Len(f.rows) : ~Blank(ColCells(f, "new_menu")[i])

\* C10: the new_menu a save writes is never blank: it is the stripped custom
\* text when that is non-blank, else the stripped option; so a save stores no
\* empty override and removes no change (only clear-date does).
C10_SaveNeverBlank ==
    [][last'.op = "save" =>
        /\ ~Blank(last'.menu)
        /\ \E i \in 1..Len(load_menu_options(menu_file)), custom \in CustomInputs :
              last'.menu = IF ~Blank(custom) THEN Strip(custom)
                           ELSE Strip(load_menu_options(menu_file)[i])
        /\ <<last'.date, last'.menu>> \in FileRows(changes_file')
        /\ NoBlankOverride(changes_file) => NoBlankOverride(changes_file')
        /\ \A i \in 1..Len(merged) : merged[i].is_changed => merged'[i].is_changed
    ]_vars

====
